---- MODULE Spec2Model ----
(***************************************************************************)
(* A model of src/etlpipeline.py: the ETLPipeline class (extract,          *)
(* transform, load, run), the part of the file system it touches, the log  *)
(* stream it appends to, and the pandas operations transform relies on.    *)
(*                                                                         *)
(* Strings are sequences of one-character strings so that str.lower() and  *)
(* os.path.splitext() are computed rather than assumed.  A cell is an      *)
(* integer: NA stands for a missing value (NaN/None), positive integers    *)
(* are ordinary values, and a formatted timestamp is the integer           *)
(* Strftime(t) of the clock reading t.                                     *)
(***************************************************************************)
EXTENDS Integers, Sequences, FiniteSets, TLC

(* ------------------------------ bounds --------------------------------- *)
MaxRows == 3
MaxCols == 2
MaxCells == 4

(* ------------------------------ strings -------------------------------- *)
UpperChars == <<"A","B","C","D","E","F","G","H","I","J","K","L","M",
                "N","O","P","Q","R","S","T","U","V","W","X","Y","Z">>
LowerChars == <<"a","b","c","d","e","f","g","h","i","j","k","l","m",
                "n","o","p","q","r","s","t","u","v","w","x","y","z">>

\* str.lower() on one character
LowerChar(c) ==
    IF \E i \in 1..Len(UpperChars) : UpperChars[i] = c
    THEN LowerChars[CHOOSE i \in 1..Len(UpperChars) : UpperChars[i] = c]
    ELSE c

\* str.lower()
Lower(s) == [i \in 1..Len(s) |-> LowerChar(s[i])]

\* the largest index of character c in s, 0 when c does not occur (str.rfind + 1)
RFind(s, c) ==
    IF \E i \in 1..Len(s) : s[i] = c
    THEN CHOOSE i \in 1..Len(s) : s[i] = c /\ \A j \in (i+1)..Len(s) : s[j] # c
    ELSE 0

\* os.path.splitext(p)[1]: the suffix from the last dot of the last path
\* component, empty when there is no dot or only leading dots before it
SplitExt(p) ==
    LET sep == RFind(p, "/")
        dot == RFind(p, ".")
    IN  IF dot > sep /\ \E k \in (sep+1)..(dot-1) : p[k] # "."
        THEN SubSeq(p, dot, Len(p))
        ELSE <<>>

ExtCsv  == <<".","c","s","v">>
ExtJson == <<".","j","s","o","n">>
ExtXlsx == <<".","x","l","s","x">>
ExtXls  == <<".","x","l","s">>

\* the format the extension selects in extract (lines 44-51) and load (113-120)
FormatOf(ext) ==
    IF ext = ExtCsv THEN "csv"
    ELSE IF ext = ExtJson THEN "json"
    ELSE IF ext \in {ExtXlsx, ExtXls} THEN "excel"
    ELSE "unsupported"

(* ------------------------------ datasets ------------------------------- *)
NA == 0 - 1
CellValues == {NA, 1, 2}

\* a column label: a string, or (isStr = FALSE) a non-string label such as
\* the integer labels read_excel and read_json can produce
StrName(s) == [isStr |-> TRUE, chars |-> s]
IntName(s) == [isStr |-> FALSE, chars |-> s]

NameIdUpper == StrName(<<"I","D">>)
NameIdLower == StrName(<<"i","d">>)
NameName    == StrName(<<"N","a","m","e">>)
NameTsMixed == StrName(<<"E","T","L","_","T","i","m","e","s","t","a","m","p">>)
NameTs      == StrName(<<"e","t","l","_","t","i","m","e","s","t","a","m","p">>)
NameSeven   == IntName(<<"7">>)
NameId      == NameIdLower

ColumnNames == {NameIdUpper, NameIdLower, NameName, NameTsMixed, NameTs, NameSeven}

Range(s) == {s[i] : i \in 1..Len(s)}
Injective(s) == \A i, j \in 1..Len(s) : s[i] = s[j] => i = j

\* the column lists a reader can produce: labels are distinct
Schemas ==
    {s \in UNION {[1..n -> ColumnNames] : n \in 1..MaxCols} : Injective(s)}

RowsOf(ncols) ==
    UNION {[1..m -> [1..ncols -> CellValues]] :
             m \in {k \in 0..MaxRows : k * ncols <= MaxCells}}

Datasets ==
    UNION {{[columns |-> s, rows |-> r] : r \in RowsOf(Len(s))} : s \in Schemas}

EmptyDataset == [columns |-> <<>>, rows |-> <<>>]

(* --------------------------- pandas operations ------------------------- *)
NoMissing(row) == \A c \in 1..Len(row) : row[c] # NA

\* DataFrame.dropna(): the frame without the rows that hold a missing cell
DropNa(d) == [d EXCEPT !.rows = SelectSeq(d.rows, NoMissing)]

\* key in DataFrame.columns
HasColumn(d, key) == \E c \in 1..Len(d.columns) : d.columns[c] = key

\* DataFrame.__setitem__(key, vals): every column labelled key is replaced,
\* and a new last column is added when there is none
SetItem(d, key, vals) ==
    IF HasColumn(d, key)
    THEN [d EXCEPT !.rows =
            [i \in 1..Len(d.rows) |->
                [c \in 1..Len(d.columns) |->
                    IF d.columns[c] = key THEN vals[i] ELSE d.rows[i][c]]]]
    ELSE [columns |-> Append(d.columns, key),
          rows    |-> [i \in 1..Len(d.rows) |-> Append(d.rows[i], vals[i])]]

\* datetime.strftime('%Y-%m-%d %H:%M:%S') of the clock reading t (seconds):
\* a value outside CellValues, different for different seconds
Strftime(t) == 1000 + t

(* ------------------------- the steps of transform ---------------------- *)
\* a label without .lower(): col.lower() raises AttributeError (line 79)
HasNonStringLabel(d) == \E c \in 1..Len(d.columns) : ~d.columns[c].isStr

LowerName(col) == StrName(Lower(col.chars))

KeepColumns(d) == d

\* line 79: data.columns = [col.lower() for col in data.columns]
LowerColumns(d) ==
    [d EXCEPT !.columns = [c \in 1..Len(d.columns) |-> LowerName(d.columns[c])]]

\* line 82: data['etl_timestamp'] = datetime.now().strftime(...)
AddTimestamp(d, now) ==
    SetItem(d, NameTs, [i \in 1..Len(d.rows) |-> Strftime(now)])

AddIdAlways(d) == SetItem(d, NameId, [i \in 1..Len(d.rows) |-> i])

AddIdFromZero(d) ==
    IF HasColumn(d, NameId) THEN d
    ELSE SetItem(d, NameId, [i \in 1..Len(d.rows) |-> i - 1])

AddIdConstant(d) ==
    IF HasColumn(d, NameId) THEN d
    ELSE SetItem(d, NameId, [i \in 1..Len(d.rows) |-> 1])

\* lines 85-86: if 'id' not in data.columns: data['id'] = range(1, len(data)+1)
AddId(d) ==
    IF HasColumn(d, NameId) THEN d
    ELSE SetItem(d, NameId, [i \in 1..Len(d.rows) |-> i])

\* The heap is a sequence of frames; a reference is an index, 0 is None.
DropNaInPlace(h, ref) == [heap |-> [h EXCEPT ![ref] = DropNa(@)], ref |-> ref]

DropNaReversed(h, ref) ==
    LET kept == DropNa(h[ref]).rows
    IN  [heap |-> Append(h, [h[ref] EXCEPT !.rows =
                       [i \in 1..Len(kept) |-> kept[Len(kept) + 1 - i]]]),
         ref  |-> Len(h) + 1]

\* line 76: data = data.dropna() allocates a new frame and rebinds the
\* local name to it; the caller's frame is not touched
DropNaRebind(h, ref) == [heap |-> Append(h, DropNa(h[ref])), ref |-> Len(h) + 1]

\* lines 72-93: the body of transform on the frame ref refers to, with the
\* clock reading now; err is the exception that leaves the try block
TransformBody(h, ref, now) ==
    LET dn == DropNaRebind(h, ref)
        h1 == dn.heap
        r1 == dn.ref
    IN  IF HasNonStringLabel(h1[r1])
        THEN [heap |-> h1, ret |-> 0, err |-> "AttributeError"]
        ELSE [heap |-> [h1 EXCEPT ![r1] =
                          AddId(AddTimestamp(LowerColumns(h1[r1]), now))],
              ret  |-> r1,
              err  |-> "none"]

(* ------------------------------ the program ---------------------------- *)
VARIABLES
    source_path,        \* self.source_path
    destination_path,   \* self.destination_path
    source_exists,      \* whether a file is at source_path
    source_data,        \* the table in the source file, once the reader has parsed it
    dest_file,          \* the file at destination_path: [exists, format, content]
    dest_dir,           \* whether the directory of destination_path exists
    fs_before,          \* dest_file and dest_dir as they were when run() was called
    heap,               \* the DataFrame objects allocated so far
    raw_data,           \* run()'s local raw_data (a reference, 0 before extract)
    transformed_data,   \* run()'s local transformed_data
    exc,                \* the exception in flight, "none" when there is none
    result,             \* what run() returned: "none" until it returns
    log,                \* the entries appended to the logger
    clock,              \* the wall clock, in seconds
    pc                  \* the position of run()

vars == <<source_path, destination_path, source_exists, source_data, dest_file, dest_dir,
          fs_before, heap, raw_data, transformed_data, exc, result, log, clock, pc>>

SourcePaths ==
    { <<"a",".","C","S","V">>, <<"a",".","j","s","o","n">>,
      <<"a",".","x","l","s">>, <<"a",".","t","x","t">>,
      <<"d",".","c","s","v","/","a">> }

DestinationPaths ==
    { <<"o","/","b",".","c","s","v">>, <<"o","/","b",".","J","s","o","n">>,
      <<"o","/","b",".","x","l","s","x">>, <<"o","/","b",".","t","x","t">> }

NoFile == [exists |-> FALSE, format |-> "none", content |-> EmptyDataset]
\* a file left at the destination by an earlier run
OldFile == [exists |-> TRUE, format |-> "csv",
            content |-> [columns |-> <<NameName>>, rows |-> << <<1>> >>]]
\* what an interrupted writer leaves behind
PartialFile(fmt) == [exists |-> TRUE, format |-> fmt, content |-> EmptyDataset]

Entry(level, event, err, n) == [level |-> level, event |-> event, err |-> err, n |-> n]
Info(event, n)    == Entry("INFO", event, "none", n)
Error(event, err) == Entry("ERROR", event, err, 0)

\* lines 19-29: the pipeline as constructed, and the file system around it
Init ==
    /\ source_path \in SourcePaths
    /\ destination_path \in DestinationPaths
    /\ source_exists \in BOOLEAN
    /\ source_data = EmptyDataset
    /\ \E pre \in BOOLEAN :
          /\ dest_file = (IF pre THEN OldFile ELSE NoFile)
          /\ dest_dir = pre
          /\ fs_before = [file |-> (IF pre THEN OldFile ELSE NoFile), dir |-> pre]
    /\ heap = <<>>
    /\ raw_data = 0
    /\ transformed_data = 0
    /\ exc = "none"
    /\ result = "none"
    /\ log = << Info("init", 0) >>
    /\ clock = 0
    /\ pc = "constructed"

Tick == clock' = clock + 1

\* lines 131-132: run() enters its try block
RunStart ==
    /\ pc = "constructed"
    /\ pc' = "extract"
    /\ log' = Append(log, Info("pipeline_start", 0))
    /\ Tick
    /\ UNCHANGED <<source_path, destination_path, source_exists, source_data, dest_file,
                   dest_dir, fs_before, heap, raw_data, transformed_data, exc, result>>

ReraiseWrapped(e) == "PipelineError"

\* the bare raise of lines 58, 93, 127 re-raises the exception it caught
Reraise(e) == e

ExtractOutcomesMissingAsEmpty ==
    IF FormatOf(Lower(SplitExt(source_path))) = "unsupported"
    THEN {[err |-> "UnsupportedFormat", data |-> EmptyDataset]}
    ELSE IF ~source_exists
    THEN {[err |-> "none", data |-> EmptyDataset]}
    ELSE {[err |-> "ParserError", data |-> EmptyDataset]}
         \cup {[err |-> "none", data |-> d] : d \in Datasets}

\* lines 31-58: extract(), called at line 135.  The reader either raises or
\* returns a frame; which frame is the content of the source file.
ExtractOutcomes ==
    IF FormatOf(Lower(SplitExt(source_path))) = "unsupported"
    THEN {[err |-> "UnsupportedFormat", data |-> EmptyDataset]}
    ELSE IF ~source_exists
    THEN {[err |-> "FileNotFoundError", data |-> EmptyDataset]}
    ELSE {[err |-> "ParserError", data |-> EmptyDataset]}
         \cup {[err |-> "none", data |-> d] : d \in Datasets}

Extract ==
    /\ pc = "extract"
    /\ \E o \in ExtractOutcomes :
          IF o.err = "none"
          THEN /\ heap' = Append(heap, o.data)
               /\ source_data' = o.data
               /\ raw_data' = Len(heap) + 1
               /\ log' = log \o << Info("extract_start", 0),
                                   Info("extract_ok", Len(o.data.rows)) >>
               /\ exc' = exc
               /\ pc' = "transform"
          ELSE /\ exc' = Reraise(o.err)
               /\ log' = log \o << Info("extract_start", 0),
                                   Error("extract_error", o.err) >>
               /\ pc' = "except"
               /\ UNCHANGED <<heap, raw_data, source_data>>
    /\ Tick
    /\ UNCHANGED <<source_path, destination_path, source_exists, dest_file,
                   dest_dir, fs_before, transformed_data, result>>

\* lines 60-93: transform(raw_data), called at line 138
Transform ==
    /\ pc = "transform"
    /\ LET t == TransformBody(heap, raw_data, clock)
       IN  /\ heap' = t.heap
           /\ IF t.err = "none"
              THEN /\ transformed_data' = t.ret
                   /\ log' = log \o << Info("transform_start", 0),
                                       Info("transform_ok", Len(t.heap[t.ret].rows)) >>
                   /\ exc' = exc
                   /\ pc' = "load"
              ELSE /\ exc' = Reraise(t.err)
                   /\ log' = log \o << Info("transform_start", 0),
                                       Error("transform_error", t.err) >>
                   /\ pc' = "except"
                   /\ UNCHANGED transformed_data
    /\ Tick
    /\ UNCHANGED <<source_path, destination_path, source_exists, source_data, dest_file,
                   dest_dir, fs_before, raw_data, result>>

\* line 111: os.makedirs(dirname(abspath(destination_path)), exist_ok=True)
\* succeeds when the directory is there, and otherwise creates it or raises
MakedirsOutcomes == IF dest_dir THEN {"ok"} ELSE {"ok", "OSError"}

\* lines 113-118: the writer of the format either writes the whole frame, or
\* raises and leaves the destination untouched or partly written
WriteOutcomes(fmt, d) ==
    { [err |-> "none", file |-> [exists |-> TRUE, format |-> fmt, content |-> d]],
      [err |-> "WriteError", file |-> dest_file],
      [err |-> "WriteError", file |-> PartialFile(fmt)] }

\* lines 107-120: the try block of load: the extension, the directory, the write
LoadOutcomes ==
    LET fmt == FormatOf(Lower(SplitExt(destination_path)))
    IN  { [err |-> "OSError", dir |-> dest_dir, file |-> dest_file] :
              m \in MakedirsOutcomes \ {"ok"} }
        \cup
        (IF "ok" \notin MakedirsOutcomes THEN {}
         ELSE IF fmt = "unsupported"
         THEN { [err |-> "UnsupportedFormat", dir |-> TRUE, file |-> dest_file] }
         ELSE { [err |-> w.err, dir |-> TRUE, file |-> w.file] :
                    w \in WriteOutcomes(fmt, heap[transformed_data]) })

\* lines 95-127: load(transformed_data), called at line 141
Load ==
    /\ pc = "load"
    /\ \E o \in LoadOutcomes :
          /\ dest_dir' = o.dir
          /\ dest_file' = o.file
          /\ IF o.err = "none"
             THEN /\ log' = log \o << Info("load_start", 0),
                                      Info("load_ok", Len(heap[transformed_data].rows)) >>
                  /\ exc' = exc
                  /\ pc' = "completed"
             ELSE /\ exc' = Reraise(o.err)
                  /\ log' = log \o << Info("load_start", 0),
                                      Error("load_error", o.err) >>
                  /\ pc' = "except"
    /\ Tick
    /\ UNCHANGED <<source_path, destination_path, source_exists, source_data, fs_before,
                   heap, raw_data, transformed_data, result>>

\* lines 143-144: all three steps returned
RunReturnTrue ==
    /\ pc = "completed"
    /\ log' = Append(log, Info("pipeline_ok", 0))
    /\ result' = "true"
    /\ pc' = "returned"
    /\ Tick
    /\ UNCHANGED <<source_path, destination_path, source_exists, source_data, dest_file,
                   dest_dir, fs_before, heap, raw_data, transformed_data, exc>>

RunExceptReturnsTrue ==
    /\ pc = "except"
    /\ log' = Append(log, Error("pipeline_failed", exc))
    /\ result' = "true"
    /\ exc' = "none"
    /\ pc' = "returned"
    /\ Tick
    /\ UNCHANGED <<source_path, destination_path, source_exists, source_data, dest_file,
                   dest_dir, fs_before, heap, raw_data, transformed_data>>

\* lines 146-148: the handler of run() absorbs the exception of a step
RunExcept ==
    /\ pc = "except"
    /\ log' = Append(log, Error("pipeline_failed", exc))
    /\ result' = "false"
    /\ exc' = "none"
    /\ pc' = "returned"
    /\ Tick
    /\ UNCHANGED <<source_path, destination_path, source_exists, source_data, dest_file,
                   dest_dir, fs_before, heap, raw_data, transformed_data>>

Next == RunStart \/ Extract \/ Transform \/ Load \/ RunReturnTrue \/ RunExcept

Spec == Init /\ [][Next]_vars

TypeOK ==
    /\ pc \in {"constructed", "extract", "transform", "load", "completed",
               "except", "returned"}
    /\ result \in {"none", "true", "false"}
    /\ raw_data \in 0..Len(heap)
    /\ transformed_data \in 0..Len(heap)

(* ------------------------------ properties ----------------------------- *)
Transformed == transformed_data # 0
\* the frame transform was given, as the reader produced it, and the frame it returned
In  == source_data
Out == heap[transformed_data]

IsIdName(col) ==
    col.isStr /\ Len(col.chars) = 2 /\ col.chars[1] \in {"i", "I"} /\ col.chars[2] \in {"d", "D"}
IsTimestampName(col) == col.isStr /\ Lower(col.chars) = NameTs.chars
IsLowercase(col) ==
    col.isStr /\ \A k \in 1..Len(col.chars) : col.chars[k] \notin Range(UpperChars)

InputHasId == \E c \in 1..Len(In.columns) : IsIdName(In.columns[c])
\* the rows of the input without a missing cell, in input order
Survivors == SelectSeq(In.rows, LAMBDA r : NA \notin Range(r))
ColumnsNamed(d, name) == {c \in 1..Len(d.columns) : d.columns[c] = name}
Distinct(rows, c) == \A i, j \in 1..Len(rows) : rows[i][c] = rows[j][c] => i = j
Events == {log[i].event : i \in 1..Len(log)}
Count(event) == Cardinality({i \in 1..Len(log) : log[i].event = event})

\* C2: the frame transform returns has no missing cell, only lowercase
\* column names, and a timestamp column with one value in all its rows.
T_C2 ==
    Transformed =>
        /\ \A i \in 1..Len(Out.rows) : \A c \in 1..Len(Out.columns) : Out.rows[i][c] # NA
        /\ \A c \in 1..Len(Out.columns) : IsLowercase(Out.columns[c])
        /\ ColumnsNamed(Out, NameTs) # {}
        /\ \A c \in ColumnsNamed(Out, NameTs) :
              \A i, j \in 1..Len(Out.rows) : Out.rows[i][c] = Out.rows[j][c]

\* a frame whose two labels both collide with the timestamp column, with a
\* row that is dropped and a row that is kept
W_C2 ==
    /\ Transformed
    /\ In.columns = <<NameTsMixed, NameTs>>
    /\ Len(In.rows) = 2 /\ Len(Out.rows) = 1

\* C3: with no id column in the input (in any letter case) the id column of
\* the result holds 1..N in row order, N the number of rows without a
\* missing cell.
T_C3 ==
    (Transformed /\ ~InputHasId) =>
        /\ Len(Out.rows) = Len(Survivors)
        /\ Cardinality(ColumnsNamed(Out, NameId)) = 1
        /\ \A c \in ColumnsNamed(Out, NameId) :
              \A i \in 1..Len(Out.rows) : Out.rows[i][c] = i

\* the first row is dropped, two rows are numbered
W_C3 ==
    /\ Transformed /\ ~InputHasId
    /\ Len(In.rows) = 3 /\ In.rows[1][1] = NA
    /\ Len(Out.rows) = 2

\* C4: an id column of the input (in any letter case) is not renumbered:
\* every surviving row keeps its id and no id column is added.
T_C4 ==
    (Transformed /\ InputHasId) =>
        /\ Len(Out.rows) = Len(Survivors)
        /\ Len(Out.columns) <= Len(In.columns) + 1
        /\ \A c \in 1..Len(In.columns) :
              IsIdName(In.columns[c]) =>
                  /\ Out.columns[c] = NameId
                  /\ \A i \in 1..Len(Out.rows) : Out.rows[i][c] = Survivors[i][c]
        /\ \A c \in ColumnsNamed(Out, NameId) :
              c <= Len(In.columns) /\ IsIdName(In.columns[c])

\* an upper-case ID column whose surviving values are 2, 1
W_C4 ==
    /\ Transformed
    /\ In.columns = <<NameIdUpper>>
    /\ In.rows = << <<2>>, <<NA>>, <<1>> >>
    /\ Len(Out.rows) = 2

\* C5 as stated: the id column of the result has pairwise distinct values,
\* newly assigned or not.
CE_C5 ==
    Transformed =>
        /\ ColumnsNamed(Out, NameId) # {}
        /\ \A c \in ColumnsNamed(Out, NameId) : Distinct(Out.rows, c)

\* C5 as amended: the result has an id column, and its values are pairwise
\* distinct when it was newly assigned.
T_C5 ==
    Transformed =>
        /\ ColumnsNamed(Out, NameId) # {}
        /\ ~InputHasId => \A c \in ColumnsNamed(Out, NameId) : Distinct(Out.rows, c)

W_C5 ==
    /\ Transformed /\ ~InputHasId
    /\ Len(Out.rows) = 3

\* C8 as stated: the result's rows are the input's rows without a missing
\* cell, in order, every original column unchanged.
CE_C8 ==
    Transformed =>
        /\ Len(Out.rows) = Len(Survivors)
        /\ \A i \in 1..Len(Out.rows) : \A c \in 1..Len(In.columns) :
              Out.rows[i][c] = Survivors[i][c]

\* C8 as amended: the same, for the original columns other than one whose
\* lower-cased name is etl_timestamp.
T_C8 ==
    Transformed =>
        /\ Len(Out.rows) = Len(Survivors)
        /\ \A i \in 1..Len(Out.rows) : \A c \in 1..Len(In.columns) :
              ~IsTimestampName(In.columns[c]) => Out.rows[i][c] = Survivors[i][c]

\* the middle row is dropped, and the rows kept differ
W_C8 ==
    /\ Transformed
    /\ In.columns = <<NameName>>
    /\ In.rows = << <<2>>, <<NA>>, <<1>> >>
    /\ Len(Out.rows) = 2

\* C10 as stated: the frame transform returns is the frame it was given,
\* changed in place.
CE_C10 ==
    Transformed =>
        /\ transformed_data = raw_data
        /\ ColumnsNamed(heap[raw_data], NameTs) # {}
        /\ ColumnsNamed(heap[raw_data], NameId) # {}

\* C10 as amended: the frame transform was given is left as it was; the
\* frame it returns is another instance, and that one has no row with a
\* missing cell, lowercase names, the timestamp column and the id column.
T_C10 ==
    /\ raw_data # 0 => heap[raw_data] = source_data
    /\ Transformed =>
          /\ transformed_data # raw_data
          /\ \A i \in 1..Len(Out.rows) : NA \notin Range(Out.rows[i])
          /\ \A c \in 1..Len(Out.columns) : IsLowercase(Out.columns[c])
          /\ ColumnsNamed(Out, NameTs) # {}
          /\ ColumnsNamed(Out, NameId) # {}

\* the frame given has a row to drop and an upper-case label
W_C10 ==
    /\ Transformed
    /\ In.columns = <<NameName>>
    /\ Len(In.rows) = 2 /\ Len(Out.rows) = 1

Returned == pc = "returned"
SupportedExt(path) == Lower(SplitExt(path)) \in {ExtCsv, ExtJson, ExtXlsx, ExtXls}
\* the first position of the event in the log, 0 when it is not there
Pos(event) ==
    IF event \in Events
    THEN CHOOSE i \in 1..Len(log) :
            log[i].event = event /\ \A j \in 1..(i-1) : log[j].event # event
    ELSE 0
Before(a, b) == Pos(a) # 0 /\ Pos(a) < Pos(b)
StepErrors == {"extract_error", "transform_error", "load_error"}
StepStarts == {"extract_start", "transform_start", "load_start"}
StartOf(event) ==
    CASE event = "extract_error" -> "extract_start"
      [] event = "transform_error" -> "transform_start"
      [] OTHER -> "load_start"
ErrorEntries == {i \in 1..Len(log) : log[i].level = "ERROR"}

\* C1: the steps run in the order extract, transform, load, each only after
\* the earlier ones succeeded; run() returns true exactly when all three
\* succeeded and false, with no exception left in flight, when one failed.
T_C1 ==
    /\ \A e \in StepStarts : Count(e) <= 1
    /\ "extract_start" \in Events => Before("pipeline_start", "extract_start")
    /\ "transform_start" \in Events =>
          Before("extract_start", "extract_ok") /\ Before("extract_ok", "transform_start")
    /\ "load_start" \in Events =>
          Before("transform_start", "transform_ok") /\ Before("transform_ok", "load_start")
    /\ result # "none" <=> Returned
    /\ result = "true" <=> (Returned /\ {"extract_ok", "transform_ok", "load_ok"} \subseteq Events)
    /\ result = "false" <=> (Returned /\ Events \cap StepErrors # {})
    /\ Returned => exc = "none"

\* a run whose three steps all started and whose last step failed
W_C1 == Returned /\ result = "false" /\ "load_error" \in Events

\* C6 as stated: an unsupported extension on the source makes extract fail
\* with the unsupported-format error, and on the destination makes load
\* fail with the unsupported-format error and create no file there.
CE_C6 ==
    /\ (~SupportedExt(source_path) /\ "extract_start" \in Events) =>
          \E i \in 1..Len(log) : log[i] = Error("extract_error", "UnsupportedFormat")
    /\ (~SupportedExt(destination_path) /\ "load_start" \in Events) =>
          /\ \E i \in 1..Len(log) : log[i] = Error("load_error", "UnsupportedFormat")
          /\ dest_file = fs_before.file

\* C7: with no file at the source path run() returns false, an extraction
\* error is logged, load is not called, and the destination file and its
\* directory stay as they were.
T_C7 ==
    ~source_exists =>
        /\ "load_start" \notin Events
        /\ dest_file = fs_before.file
        /\ dest_dir = fs_before.dir
        /\ Returned =>
              /\ result = "false"
              /\ \E i \in 1..Len(log) :
                    log[i].event = "extract_error" /\ log[i].level = "ERROR"

\* a supported source path with no file behind it, a file at the destination
W_C7 ==
    /\ ~source_exists /\ SupportedExt(source_path)
    /\ fs_before.file.exists
    /\ Returned

\* C9: a failing step logs one error entry and hands its exception unchanged
\* to run(), which logs one pipeline-failure entry right after it; no later
\* step starts, no success entry of the pipeline appears, no step runs twice.
T_C9 ==
    /\ \A e \in StepStarts : Count(e) <= 1
    /\ pc = "except" =>
          /\ ErrorEntries = {Len(log)}
          /\ log[Len(log)].event \in StepErrors
          /\ log[Len(log)].err = exc
          /\ log[Len(log) - 1].event \in StepStarts
    /\ (Returned /\ result = "false") =>
          /\ ErrorEntries = {Len(log) - 1, Len(log)}
          /\ log[Len(log) - 1].event \in StepErrors
          /\ log[Len(log) - 2].event \in StepStarts
          /\ log[Len(log)].event = "pipeline_failed"
          /\ log[Len(log)].err = log[Len(log) - 1].err
          /\ log[Len(log)].err # "none"
          /\ "pipeline_ok" \notin Events
    /\ \A i \in 1..Len(log) :
          log[i].event \in StepErrors => log[i-1].event = StartOf(log[i].event)

\* transform failed: extract had succeeded, load never starts
W_C9 ==
    /\ Returned /\ result = "false"
    /\ "transform_error" \in Events

====
